---- MODULE Spec2Model ----
(***************************************************************************)
(* A model of the OBJ asset loader of bevy_obj_loader (src/src/loader.rs). *)
(*                                                                         *)
(* One load is one run of load_obj.  Strings (paths, labels, names, lines) *)
(* are sequences of one-character strings, so that splitting a line,       *)
(* finding a file extension and formatting "ObjMesh{i}" are computed.      *)
(* Option<T> is a sequence: <<>> is None, <<x>> is Some(x).  A Handle is   *)
(* the label it was made for (the asset path of one load is fixed).        *)
(***************************************************************************)
EXTENDS Integers, Sequences, FiniteSets, TLC

VARIABLES
    text,               \* bytes: the OBJ file, as its sequence of lines
    pc,                 \* the statement of load_obj that runs next
    result,             \* "Pending" | "Ok" | "InvalidObjFormat" | "Panic"
    pending_materials,  \* line 64
    fetch_i,            \* line 70: iterations of the fetch loop completed
    materials,          \* line 67: the HashMap path -> MTLLoadResult
    obj_materials,      \* line 81: the flattened Vec<tobj::Material>
    slot,               \* load_material: the try_texture_handle that runs next
    slot_handles,       \* load_material: the handles resolved so far
    loaded_materials,   \* line 90
    meshes,             \* line 81: the records the loop of line 107 has taken
    loaded_meshes,      \* line 99
    children,           \* line 106: the children spawned under the root
    labeled_assets,     \* LoadContext: label -> asset, last insert wins
    set_log,            \* history: every set_labeled_asset call, in order
    texture_loads,      \* history: every load_texture call, in order
    index_at_parse,     \* history: the HashMap as load_obj_buf saw it
    cb_v, cb_n, cb_out  \* one call of chunk_by: slice, width, result

vars == <<text, pc, result, pending_materials, fetch_i, materials, obj_materials, slot,
          slot_handles, loaded_materials, meshes, loaded_meshes, children,
          labeled_assets, set_log, texture_loads, index_at_parse,
          cb_v, cb_n, cb_out>>

load_vars == <<text, pc, result, pending_materials, fetch_i, materials, obj_materials,
               slot, slot_handles, loaded_materials, meshes, loaded_meshes,
               children, labeled_assets, set_log, texture_loads, index_at_parse>>

cb_vars == <<cb_v, cb_n, cb_out>>

(***************************************************************************)
(* Bounds of the model.                                                    *)
(***************************************************************************)
MaxLines == 2       \* lines of the OBJ text
MaxMeshes == 2      \* records the geometry parser returns
MaxFlat == 4        \* length of the slice given to one chunk_by call

(***************************************************************************)
(* Values.                                                                 *)
(***************************************************************************)
None == <<>>
Some(x) == <<x>>

Ok(v) == [ok |-> TRUE, val |-> v]
Err == [ok |-> FALSE, val |-> <<>>]

Min(a, b) == IF a < b THEN a ELSE b

MTLLIB == <<"m", "t", "l", "l", "i", "b">>
SP == <<" ">>
TAB == <<"\t">>
BadByte == "<not utf-8>"

EmptyIndex == [p \in {} |-> Err]

SeqsUpTo(S, n) == UNION {[1..k -> S] : k \in 0..n}

(***************************************************************************)
(* 4.1  get_material_lib_paths (lines 277-291).                            *)
(***************************************************************************)
\* char::is_whitespace, on the characters the model's lines are made of
IsWhitespace(c) == c \in {" ", "\t"}

\* BufRead::lines yields Err for a line that is not valid UTF-8 (line 280)
ValidLine(line) == \A i \in 1..Len(line) : line[i] # BadByte

\* str::split_whitespace (line 281): the maximal runs of non-whitespace
RECURSIVE SplitFrom(_, _, _, _)
SplitFrom(line, i, cur, acc) ==
    IF i > Len(line)
    THEN IF cur = <<>> THEN acc ELSE Append(acc, cur)
    ELSE IF IsWhitespace(line[i])
         THEN SplitFrom(line, i + 1, <<>>,
                        IF cur = <<>> THEN acc ELSE Append(acc, cur))
         ELSE SplitFrom(line, i + 1, Append(cur, line[i]), acc)

split_whitespace(line) == SplitFrom(line, 1, <<>>, <<>>)

\* the loop of lines 279-289, from line i on, with `materials` so far
RECURSIVE ScanFrom(_, _, _)
ScanFrom(lines, i, acc) ==
    IF i > Len(lines) THEN Ok(acc)
    ELSE IF ~ValidLine(lines[i]) THEN Err
    ELSE LET parts == split_whitespace(lines[i]) IN
         IF parts # <<>> /\ parts[1] = MTLLIB
         THEN IF Len(parts) >= 2
              THEN ScanFrom(lines, i + 1, Append(acc, parts[2]))
              ELSE Err
         ELSE ScanFrom(lines, i + 1, acc)

\* a bug: the last token of an mtllib line is taken, not the second
RECURSIVE ScanFrom_last_token(_, _, _)
ScanFrom_last_token(lines, i, acc) ==
    IF i > Len(lines) THEN Ok(acc)
    ELSE IF ~ValidLine(lines[i]) THEN Err
    ELSE LET parts == split_whitespace(lines[i]) IN
         IF parts # <<>> /\ parts[1] = MTLLIB
         THEN IF Len(parts) >= 2
              THEN ScanFrom_last_token(lines, i + 1,
                                       Append(acc, parts[Len(parts)]))
              ELSE Err
         ELSE ScanFrom_last_token(lines, i + 1, acc)

get_material_lib_paths_last_token(reader) ==
    ScanFrom_last_token(reader, 1, <<>>)

get_material_lib_paths(reader) == ScanFrom(reader, 1, <<>>)

(***************************************************************************)
(* The files of the asset directory and the external parsers.              *)
(***************************************************************************)
PathA == <<"a">>
PathB == <<"b">>
PathC == <<"c">>
TexT == <<"t", ".", "p">>     \* a texture reference with an extension
TexU == <<"u">>               \* a texture reference without one
NameR == <<"r">>
NameG == <<"g">>
NameM == <<"m">>

Material(n, d, nm, s, a) ==
    [name |-> n, diffuse_texture |-> d, normal_texture |-> nm,
     specular_texture |-> s, ambient_texture |-> a]

\* what tobj::load_mtl_buf reads in each library when it parses (line 77)
MtlFile(path) ==
    IF path = PathA THEN <<Material(NameR, TexT, TexT, <<>>, <<>>)>>
    ELSE IF path = PathB THEN <<Material(NameG, TexT, <<>>, <<>>, <<>>)>>
    ELSE IF path = PathC THEN <<Material(NameG, <<>>, <<>>, TexU, <<>>)>>
    ELSE <<>>

\* tobj::load_mtl_buf (line 77): the library's materials, or a parse error
MtlLoadResults(path) == {Err, Ok(MtlFile(path))}

\* the resolver closure handed to load_obj_buf (lines 81-87)
Resolver(index, p) == IF p \in DOMAIN index THEN index[p] ELSE Err

\* tobj::load_obj_buf (lines 81-88): it calls the resolver on the second
\* token of every mtllib line, in order, appends the materials it gets to
\* the flattened sequence, and fails on the first Err
RECURSIVE ResolveFrom(_, _, _, _)
ResolveFrom(index, requests, i, acc) ==
    IF i > Len(requests) THEN Ok(acc)
    ELSE LET r == Resolver(index, requests[i]) IN
         IF r.ok THEN ResolveFrom(index, requests, i + 1, acc \o r.val)
         ELSE Err

load_obj_buf(reader, index, grammar_ok) ==
    LET requests == get_material_lib_paths(reader) IN
    IF ~grammar_ok \/ ~requests.ok THEN Err
    ELSE ResolveFrom(index, requests.val, 1, <<>>)

\* HashMap::insert (line 75)
Insert(map, k, v) == [x \in DOMAIN map \cup {k} |-> IF x = k THEN v ELSE map[x]]

(***************************************************************************)
(* The inputs of a load.                                                   *)
(***************************************************************************)
LineA == MTLLIB \o SP \o PathA
LineB == MTLLIB \o SP \o PathB
LineC == MTLLIB \o SP \o PathC
LineV == <<"v", " ", "0">>
LineBare == MTLLIB

\* the lines of the OBJ texts of a whole load: what matters to the loader
\* in a text is its mtllib lines
ObjLines == {LineA, LineB, LineC, LineBare}

\* lines that exercise the scanner: a line of geometry, leading blanks, a
\* tab, a third token, a longer first token, a comment, no second token, an
\* empty line, bad UTF-8
ScanLines ==
    {LineA,
     LineV,
     SP \o SP \o MTLLIB \o TAB \o PathB \o SP \o PathC,
     MTLLIB \o PathA,
     <<"#">> \o SP \o MTLLIB \o SP \o PathA,
     LineBare,
     MTLLIB \o SP,
     <<>>,
     <<"v", BadByte>>}

(***************************************************************************)
(* Init: load_obj is entered with the bytes of the OBJ file.               *)
(***************************************************************************)
InitLoad(texts) ==
    /\ text \in texts
    /\ pc = "scan"
    /\ result = "Pending"
    /\ pending_materials = <<>>
    /\ fetch_i = 0
    /\ materials = EmptyIndex
    /\ obj_materials = <<>>
    /\ slot = 1
    /\ slot_handles = <<>>
    /\ loaded_materials = <<>>
    /\ meshes = <<>>
    /\ loaded_meshes = <<>>
    /\ children = <<>>
    /\ labeled_assets = EmptyIndex
    /\ set_log = <<>>
    /\ texture_loads = <<>>
    /\ index_at_parse = None

InitCb ==
    /\ cb_v = <<>>
    /\ cb_n = 3
    /\ cb_out = None

Init == InitLoad(SeqsUpTo(ObjLines, MaxLines)) /\ InitCb

(***************************************************************************)
(* load_obj, lines 64-88.                                                  *)
(***************************************************************************)
\* lines 64-68: the scan; an Err is mapped to InvalidObjFormat and returned
Scan ==
    /\ pc = "scan" /\ result = "Pending"
    /\ LET r == get_material_lib_paths(text) IN
       IF r.ok
       THEN /\ pending_materials' = r.val
            /\ pc' = IF r.val = <<>> THEN "parse" ELSE "fetch"
            /\ result' = result
       ELSE /\ result' = "InvalidObjFormat"
            /\ UNCHANGED <<pending_materials, pc>>
    /\ UNCHANGED <<text, fetch_i, materials, obj_materials, slot, slot_handles,
                   loaded_materials, meshes, loaded_meshes, children,
                   labeled_assets, set_log, texture_loads, index_at_parse>>
    /\ UNCHANGED cb_vars

\* a bug: the loop over the pending libraries ends after its first iteration
FetchMaterialLib_once ==
    /\ pc = "fetch" /\ result = "Pending"
    /\ fetch_i < Len(pending_materials)
    /\ LET material == pending_materials[fetch_i + 1] IN
       \E fetched \in BOOLEAN :
          IF fetched
          THEN \E r \in MtlLoadResults(material) :
                  /\ materials' = Insert(materials, material, r)
                  /\ fetch_i' = fetch_i + 1
                  /\ pc' = "parse"
                  /\ result' = result
          ELSE /\ result' = "Panic"
               /\ UNCHANGED <<materials, fetch_i, pc>>
    /\ UNCHANGED <<text, pending_materials, obj_materials, slot, slot_handles,
                   loaded_materials, meshes, loaded_meshes, children,
                   labeled_assets, set_log, texture_loads, index_at_parse>>
    /\ UNCHANGED cb_vars

\* lines 70-79: one iteration of the fetch loop; read_asset_bytes(..).unwrap()
FetchMaterialLib ==
    /\ pc = "fetch" /\ result = "Pending"
    /\ fetch_i < Len(pending_materials)
    /\ LET material == pending_materials[fetch_i + 1] IN
       \E fetched \in BOOLEAN :
          IF fetched
          THEN \E r \in MtlLoadResults(material) :
                  /\ materials' = Insert(materials, material, r)
                  /\ fetch_i' = fetch_i + 1
                  /\ pc' = IF fetch_i + 1 = Len(pending_materials)
                           THEN "parse" ELSE "fetch"
                  /\ result' = result
          ELSE /\ result' = "Panic"
               /\ UNCHANGED <<materials, fetch_i, pc>>
    /\ UNCHANGED <<text, pending_materials, obj_materials, slot, slot_handles,
                   loaded_materials, meshes, loaded_meshes, children,
                   labeled_assets, set_log, texture_loads, index_at_parse>>
    /\ UNCHANGED cb_vars

\* lines 81-88: load_obj_buf(..).unwrap()
ParseGeometry ==
    /\ pc = "parse" /\ result = "Pending"
    /\ index_at_parse' = Some(materials)
    /\ \E grammar_ok \in BOOLEAN :
          LET r == load_obj_buf(text, materials, grammar_ok) IN
          IF r.ok
          THEN /\ obj_materials' = r.val
               /\ pc' = IF r.val = <<>> THEN "meshes" ELSE "materials"
               /\ result' = result
          ELSE /\ result' = "Panic"
               /\ UNCHANGED <<obj_materials, pc>>
    /\ UNCHANGED <<text, pending_materials, fetch_i, materials, slot,
                   slot_handles, loaded_materials, meshes, loaded_meshes,
                   children, labeled_assets, set_log, texture_loads>>
    /\ UNCHANGED cb_vars

(***************************************************************************)
(* LoadContext and labels.                                                 *)
(***************************************************************************)
\* a labeled asset: its type, the descriptor, record or load_texture call
\* it was built from, and the handles it holds
Asset(kind, from, refs) == [kind |-> kind, from |-> from, refs |-> refs]

\* a bug: a label that is taken keeps its asset
set_labeled_asset_keep_first(assets, label, asset) ==
    IF label \in DOMAIN assets THEN assets ELSE Insert(assets, label, asset)

\* LoadContext::set_labeled_asset: the map insert; the handle it returns
\* is the label (the labels of a load are never empty: tobj names every
\* model and material)
set_labeled_asset(assets, label, asset) == Insert(assets, label, asset)

LogEntry(label, asset) == [label |-> label, asset |-> asset]

\* lines 265-271
texture_label(texture) == texture
material_label(material) == material.name

ObjLabel == <<"O", "b", "j">>
SceneLabel == <<"S", "c", "e", "n", "e">>

Digits == <<"0", "1", "2", "3", "4", "5", "6", "7", "8", "9">>

RECURSIVE Decimal(_)
Decimal(n) ==
    IF n < 10 THEN <<Digits[n + 1]>>
    ELSE Decimal(n \div 10) \o <<Digits[(n % 10) + 1]>>

\* format!("ObjMesh{}", i) (line 138)
ObjMeshLabel(i) == <<"O", "b", "j", "M", "e", "s", "h">> \o Decimal(i)

(***************************************************************************)
(* 4.5  try_texture_handle and load_texture (lines 222-255).               *)
(***************************************************************************)
\* Path::extension of a file name (line 249)
extension(path) ==
    LET dots == {i \in 2..Len(path) : path[i] = "."} IN
    IF dots = {} THEN None
    ELSE LET last == CHOOSE i \in dots : \A j \in dots : j <= i IN
         Some(SubSeq(path, last + 1, Len(path)))

\* load_texture: "Err" for a failed `?`, "Panic" for the unwrap of line 249,
\* "Ok" when the texture has been registered
load_texture(texture, fetched, decoded) ==
    IF ~fetched THEN "Err"
    ELSE IF extension(texture) = None THEN "Panic"
    ELSE IF ~decoded THEN "Err"
    ELSE "Ok"

\* the texture string try_texture_handle k of load_material is given
\* (lines 182-189)
SlotTexture(material, k) ==
    IF k = 1 THEN material.diffuse_texture
    ELSE IF k = 2 THEN material.normal_texture
    ELSE IF k = 3 THEN material.specular_texture
    ELSE material.ambient_texture

\* a bug: a texture whose label is registered already is not loaded again
NeedsLoad_unless_registered(texture) ==
    texture # <<>> /\ texture \notin DOMAIN labeled_assets

\* whether try_texture_handle calls load_texture (line 226)
NeedsLoad(texture) == texture # <<>>

\* lines 182-189 and 222-255: one try_texture_handle of the material that
\* is being loaded; an Err of load_material is mapped to InvalidObjFormat
TryTextureHandle ==
    /\ pc = "materials" /\ result = "Pending"
    /\ slot \in 1..4
    /\ LET material == obj_materials[Len(loaded_materials) + 1]
           texture == SlotTexture(material, slot)
           label == texture_label(texture)
           asset == Asset("Texture", Len(texture_loads) + 1, <<>>)
       IN
       IF NeedsLoad(texture)
       THEN /\ texture_loads' = Append(texture_loads, texture)
            /\ \E fetched \in BOOLEAN, decoded \in BOOLEAN :
                  LET r == load_texture(texture, fetched, decoded) IN
                  IF r = "Ok"
                  THEN /\ labeled_assets' =
                              set_labeled_asset(labeled_assets, label, asset)
                       /\ set_log' = Append(set_log, LogEntry(label, asset))
                       /\ slot_handles' = Append(slot_handles, Some(label))
                       /\ slot' = slot + 1
                       /\ result' = result
                  ELSE /\ result' = IF r = "Err" THEN "InvalidObjFormat"
                                    ELSE "Panic"
                       /\ UNCHANGED <<labeled_assets, set_log, slot_handles,
                                      slot>>
       ELSE /\ slot_handles' = Append(slot_handles, None)
            /\ slot' = slot + 1
            /\ UNCHANGED <<texture_loads, labeled_assets, set_log, result>>
    /\ UNCHANGED <<text, pc, pending_materials, fetch_i, materials,
                   obj_materials, loaded_materials, meshes, loaded_meshes,
                   children, index_at_parse>>
    /\ UNCHANGED cb_vars

(***************************************************************************)
(* 4.6  load_material, lines 191-206, and the push of line 92.             *)
(***************************************************************************)
\* a bug: the loop over the materials ends after its first iteration
BuildMaterial_once ==
    /\ pc = "materials" /\ result = "Pending"
    /\ slot = 5
    /\ LET i == Len(loaded_materials)
           material == obj_materials[i + 1]
           label == material.name
           asset == [kind |-> "StandardMaterial", from |-> i,
                     refs |-> slot_handles]
       IN
       /\ labeled_assets' = Insert(labeled_assets, label, asset)
       /\ set_log' = Append(set_log, [label |-> label, asset |-> asset])
       /\ loaded_materials' = Append(loaded_materials, label)
       /\ pc' = "meshes"
    /\ slot' = 1
    /\ slot_handles' = <<>>
    /\ UNCHANGED <<text, result, pending_materials, fetch_i, materials,
                   obj_materials, meshes, loaded_meshes, children,
                   texture_loads, index_at_parse>>
    /\ UNCHANGED cb_vars

BuildMaterial ==
    /\ pc = "materials" /\ result = "Pending"
    /\ slot = 5
    /\ LET i == Len(loaded_materials)
           material == obj_materials[i + 1]
           label == material_label(material)
           asset == Asset("StandardMaterial", i, slot_handles)
       IN
       /\ labeled_assets' = set_labeled_asset(labeled_assets, label, asset)
       /\ set_log' = Append(set_log, LogEntry(label, asset))
       /\ loaded_materials' = Append(loaded_materials, label)
       /\ pc' = IF i + 1 = Len(obj_materials) THEN "meshes" ELSE "materials"
    /\ slot' = 1
    /\ slot_handles' = <<>>
    /\ UNCHANGED <<text, result, pending_materials, fetch_i, materials,
                   obj_materials, meshes, loaded_meshes, children,
                   texture_loads, index_at_parse>>
    /\ UNCHANGED cb_vars

(***************************************************************************)
(* 4.4  chunk_by (lines 209-220).                                          *)
(***************************************************************************)
\* slice::chunks(N): consecutive chunks of N elements, the last one shorter
\* when N does not divide the length
chunks(v, N) ==
    [j \in 1..((Len(v) + N - 1) \div N) |->
        SubSeq(v, (j - 1) * N + 1, Min(j * N, Len(v)))]

\* a bug: a slice without elements is refused
chunk_by_refuses_empty(v, N) ==
    IF v = <<>> THEN [ok |-> FALSE, val |-> <<>>]
    ELSE LET cs == [j \in 1..((Len(v) + N - 1) \div N) |->
                       SubSeq(v, (j - 1) * N + 1, Min(j * N, Len(v)))]
         IN IF \E j \in 1..Len(cs) : Len(cs[j]) # N
            THEN [ok |-> FALSE, val |-> <<>>]
            ELSE [ok |-> TRUE, val |-> cs]

\* <[T; N]>::try_from(&[T]) fails unless the slice has exactly N elements;
\* collect() into a Result is Err when some chunk's conversion is
chunk_by(v, N) ==
    LET cs == chunks(v, N) IN
    IF \E j \in 1..Len(cs) : Len(cs[j]) # N THEN Err ELSE Ok(cs)

(***************************************************************************)
(* 4.7  the mesh loop and the final assets (lines 99-173).                 *)
(***************************************************************************)
Flat(n) == [i \in 1..n |-> i]

\* the lengths of the positions, normals and texcoords of a raw record
ShapeLens == {<<3, 0, 0>>, <<3, 3, 2>>, <<4, 0, 0>>, <<3, 2, 0>>, <<3, 0, 1>>}

MeshNames == {NameM, NameR, ObjLabel, ObjMeshLabel(0)}

\* the records load_obj_buf can return when it returned n_materials
\* materials: a material_id is None or an index into them
RawMeshes(n_materials) ==
    {[name |-> nm, positions |-> Flat(sh[1]), normals |-> Flat(sh[2]),
      texcoords |-> Flat(sh[3]), material_id |-> id] :
        nm \in MeshNames, sh \in ShapeLens,
        id \in {None} \cup {Some(j) : j \in 0..(n_materials - 1)}}

\* Vec::get(i).cloned() (line 136)
Get(v, i) == IF i < Len(v) THEN Some(v[i + 1]) ELSE None

\* a bug: the first loaded material is taken, whatever the index
MeshMaterial_first(material_id, loaded) ==
    IF material_id = None THEN None ELSE Get(loaded, 0)

\* lines 133-136: material_id.and_then(|i| loaded_materials.get(i).cloned())
MeshMaterial(material_id, loaded) ==
    IF material_id = None THEN None ELSE Get(loaded, material_id[1])

\* lines 107-161: one iteration of the loop over the records.  The records
\* come from the external parser and are read only here, one by one and in
\* order, so each is drawn when the iterator yields it; the three
\* chunk_by(..).unwrap() come before the iteration registers anything
BuildMesh ==
    /\ pc = "meshes" /\ result = "Pending"
    /\ Len(meshes) < MaxMeshes
    /\ \E tobj_mesh \in RawMeshes(Len(obj_materials)) :
          LET i == Len(meshes)
              positions == chunk_by(tobj_mesh.positions, 3)
              normals == chunk_by(tobj_mesh.normals, 3)
              texcoords == chunk_by(tobj_mesh.texcoords, 2)
              mesh == tobj_mesh.name
              mesh_asset == Asset("Mesh", i, <<>>)
              material == MeshMaterial(tobj_mesh.material_id, loaded_materials)
              loaded_mesh == ObjMeshLabel(i)
              obj_mesh == Asset("ObjMesh", i, <<Some(mesh), material>>)
          IN
          /\ meshes' = Append(meshes, tobj_mesh)
          /\ IF positions.ok /\ normals.ok /\ texcoords.ok
             THEN /\ labeled_assets' =
                         set_labeled_asset(
                             set_labeled_asset(labeled_assets, mesh, mesh_asset),
                             loaded_mesh, obj_mesh)
                  /\ set_log' = set_log \o <<LogEntry(mesh, mesh_asset),
                                              LogEntry(loaded_mesh, obj_mesh)>>
                  /\ children' = Append(children,
                                        [mesh |-> mesh, material |-> material])
                  /\ loaded_meshes' = Append(loaded_meshes, loaded_mesh)
                  /\ result' = result
             ELSE /\ result' = "Panic"
                  /\ UNCHANGED <<labeled_assets, set_log, children,
                                 loaded_meshes>>
    /\ UNCHANGED <<text, pc, pending_materials, fetch_i, materials,
                   obj_materials, slot, slot_handles, loaded_materials,
                   texture_loads, index_at_parse>>
    /\ UNCHANGED cb_vars

\* lines 163-173: the iterator is exhausted; "Obj", "Scene", Ok(())
FinishLoad ==
    /\ pc = "meshes" /\ result = "Pending"
    /\ LET obj == Asset("Obj", 0,
                        [k \in 1..(Len(loaded_materials) + Len(loaded_meshes)) |->
                            Some((loaded_materials \o loaded_meshes)[k])])
           scene == Asset("Scene", 0, <<>>)
       IN
       /\ labeled_assets' =
              set_labeled_asset(
                  set_labeled_asset(labeled_assets, ObjLabel, obj),
                  SceneLabel, scene)
       /\ set_log' = set_log \o <<LogEntry(ObjLabel, obj),
                                   LogEntry(SceneLabel, scene)>>
    /\ pc' = "done"
    /\ result' = "Ok"
    /\ UNCHANGED <<text, pending_materials, fetch_i, materials, obj_materials,
                   slot, slot_handles, loaded_materials, meshes, loaded_meshes,
                   children, texture_loads, index_at_parse>>
    /\ UNCHANGED cb_vars

(***************************************************************************)
(* The load.                                                               *)
(***************************************************************************)
Next ==
    \/ Scan
    \/ FetchMaterialLib
    \/ ParseGeometry
    \/ TryTextureHandle
    \/ BuildMaterial
    \/ BuildMesh
    \/ FinishLoad

Spec == Init /\ [][Next]_vars

(***************************************************************************)
(* The scanner on lines of every shape, followed as far as the parse.      *)
(***************************************************************************)
InitScan == InitLoad(SeqsUpTo(ScanLines, MaxLines)) /\ InitCb

NextScan ==
    \/ Scan
    \/ FetchMaterialLib
    \/ ParseGeometry

SpecScan == InitScan /\ [][NextScan]_vars

(***************************************************************************)
(* chunk_by on slices of every length, beside the mesh loop of a load of   *)
(* an OBJ file without material libraries.                                 *)
(***************************************************************************)
CbVals == {7, 9}

\* lines 112, 119, 126: chunk_by::<f32, 3> and chunk_by::<f32, 2>
CbWidths == {2, 3}

InitChunk ==
    /\ InitLoad({<<>>})
    /\ cb_v \in SeqsUpTo(CbVals, MaxFlat)
    /\ cb_n \in CbWidths
    /\ cb_out = None

\* one call of chunk_by::<T, N>(v)
ChunkByCall ==
    /\ cb_out = None
    /\ cb_out' = Some(chunk_by(cb_v, cb_n))
    /\ UNCHANGED <<cb_v, cb_n>>
    /\ UNCHANGED load_vars

NextChunk ==
    \/ ChunkByCall
    \/ Scan
    \/ ParseGeometry
    \/ BuildMesh
    \/ FinishLoad

SpecChunk == InitChunk /\ [][NextChunk]_vars

(***************************************************************************)
(* What the claims speak of.                                               *)
(***************************************************************************)
Failed == result \in {"InvalidObjFormat", "Panic"}

\* the set_labeled_asset calls so far that registered an asset of a kind in K
LogKinds(K) == {k \in 1..Len(set_log) : set_log[k].asset.kind \in K}

\* the labels that hold an asset of kind K
Holding(K) == {l \in DOMAIN labeled_assets : labeled_assets[l].kind = K}

\* the last set_labeled_asset call made with label l
LastCall(l) ==
    CHOOSE k \in 1..Len(set_log) :
        /\ set_log[k].label = l
        /\ \A k2 \in 1..Len(set_log) : set_log[k2].label = l => k2 <= k

\* the registry is what the calls made it: every label used holds the asset
\* of the last call made with it
LastWriteWins ==
    /\ DOMAIN labeled_assets = {set_log[k].label : k \in 1..Len(set_log)}
    /\ \A l \in DOMAIN labeled_assets :
          labeled_assets[l] = set_log[LastCall(l)].asset

ScanSucceeded == pc # "scan"
LibsResolved == ScanSucceeded /\ fetch_i = Len(pending_materials)
ParseSucceeded == LibsResolved /\ index_at_parse # None /\ pc # "parse"
MaterialsBuilt == ParseSucceeded /\ Len(loaded_materials) = Len(obj_materials)

Malformed(rec) ==
    \/ Len(rec.positions) % 3 # 0
    \/ Len(rec.normals) % 3 # 0
    \/ Len(rec.texcoords) % 2 # 0

AllWellFormed == \A i \in 1..Len(meshes) : ~Malformed(meshes[i])

C2_FetchFailureReturned ==
    (pc = "fetch" /\ result # "Pending") =>
        /\ result = "InvalidObjFormat"
        /\ index_at_parse = None
        /\ set_log = <<>>

(***************************************************************************)
(* C3.  A record with a positions or normals array whose length is not a   *)
(* multiple of 3, or a texcoords array whose length is not a multiple of   *)
(* 2, makes the load return a failure value and leaves nothing registered, *)
(* wherever the record stands in the file.                                 *)
(***************************************************************************)
\* C3: the run whose last record is malformed returned a failure value
\* and registered nothing
C3_ChunkErrorReturned ==
    (pc = "meshes" /\ meshes # <<>> /\ Malformed(meshes[Len(meshes)])) =>
        /\ result = "InvalidObjFormat"
        /\ DOMAIN labeled_assets = {}

(***************************************************************************)
(* C4.  Within one load, load_texture runs at most once for every distinct *)
(* non-empty texture reference string.                                     *)
(***************************************************************************)
\* C4: no string occurs twice among the load_texture calls of a load
C4_LoadedAtMostOnce ==
    \A i, j \in 1..Len(texture_loads) :
        i # j => texture_loads[i] # texture_loads[j]

NonEmpty(texture) == texture # <<>>

\* the non-empty texture strings of the first n slots of a material
Cited(material, n) ==
    SelectSeq([k \in 1..n |-> SlotTexture(material, k)], NonEmpty)

RECURSIVE CitedBy(_, _)
CitedBy(mats, n) ==
    IF n = 0 THEN <<>> ELSE CitedBy(mats, n - 1) \o Cited(mats[n], 4)

\* every citation whose try_texture_handle has returned Ok, in order
CitedSoFar ==
    CitedBy(obj_materials, Len(loaded_materials))
        \o (IF pc = "materials"
            THEN Cited(obj_materials[Len(loaded_materials) + 1], slot - 1)
            ELSE <<>>)

\* C4 as amended: load_texture runs once for every non-empty slot, in
\* slot order, however often a string recurs; every citing slot receives
\* the handle of the label that is the string, and that label holds one
\* asset, the one registered last.
C4_LoadedPerCitation ==
    /\ ~Failed => texture_loads = CitedSoFar
    /\ (Failed /\ pc = "materials") =>
          texture_loads = CitedSoFar \o
              <<SlotTexture(obj_materials[Len(loaded_materials) + 1], slot)>>
    /\ (Failed /\ pc # "materials") => texture_loads = CitedSoFar
    /\ \A k \in LogKinds({"StandardMaterial"}) :
          LET asset == set_log[k].asset
              material == obj_materials[asset.from + 1]
          IN
          \A n \in 1..4 :
              asset.refs[n] =
                  IF SlotTexture(material, n) = <<>> THEN None
                  ELSE Some(texture_label(SlotTexture(material, n)))
    /\ LastWriteWins

\* a material was built whose first two slots cite the same string
C4_Witness ==
    /\ loaded_materials # <<>>
    /\ Len(texture_loads) >= 2
    /\ texture_loads[1] = texture_loads[2]
    /\ Holding("Texture") = {texture_loads[1]}

(***************************************************************************)
(* C5.  For every validly decodable text the scanner returns exactly the   *)
(* second whitespace-separated tokens of the lines whose first token is    *)
(* mtllib, in order and with duplicates; no other line matters or fails;   *)
(* without an mtllib line the load proceeds with an empty material index.  *)
(***************************************************************************)
Blank(c) == c = " " \/ c = "\t"

\* the tokens of a line, as the intervals they occupy: the maximal runs of
\* characters that are not blank
Runs(line) ==
    {r \in (1..Len(line)) \X (1..Len(line)) :
        /\ r[1] <= r[2]
        /\ \A k \in r[1]..r[2] : ~Blank(line[k])
        /\ r[1] = 1 \/ Blank(line[r[1] - 1])
        /\ r[2] = Len(line) \/ Blank(line[r[2] + 1])}

\* the n-th token of a line that has one
Token(line, n) ==
    LET r == CHOOSE q \in Runs(line) :
                 Cardinality({q2 \in Runs(line) : q2[1] < q[1]}) = n - 1
    IN SubSeq(line, r[1], r[2])

IsMtllibLine(line) == Runs(line) # {} /\ Token(line, 1) = MTLLIB
HasSecondToken(line) == Cardinality(Runs(line)) >= 2
NamesLibrary(line) == IsMtllibLine(line) /\ HasSecondToken(line)

\* the second tokens of the mtllib lines that have one, in encounter order
SecondTokens(lines) ==
    LET named == SelectSeq(lines, NamesLibrary) IN
    [i \in 1..Len(named) |-> Token(named[i], 2)]

ValidText == \A i \in 1..Len(text) : ValidLine(text[i])
ScanReturned == pc # "scan" \/ result # "Pending"
ScanFailed == pc = "scan" /\ result = "InvalidObjFormat"

\* C5: a valid text never makes the scan fail, and the scan returns the
\* second tokens of its mtllib lines
C5_ScanNeverFails ==
    (ScanReturned /\ ValidText) =>
        /\ ~ScanFailed
        /\ pending_materials = SecondTokens(text)
        /\ (pending_materials = <<>> /\ index_at_parse # None) =>
              index_at_parse = Some(EmptyIndex)

\* C5 as amended: the same, for the valid texts in which every mtllib line
\* has a second token; a valid text with an mtllib line that has none makes
\* the scan, and with it the load, fail with InvalidObjFormat.
C5_ScanSecondTokens ==
    /\ (ScanReturned /\ ValidText
            /\ \A i \in 1..Len(text) :
                  IsMtllibLine(text[i]) => HasSecondToken(text[i])) =>
          /\ ~ScanFailed
          /\ pending_materials = SecondTokens(text)
          /\ pending_materials = <<>> => pc # "fetch"
          /\ (pending_materials = <<>> /\ index_at_parse # None) =>
                index_at_parse = Some(EmptyIndex)
    /\ (ScanReturned /\ ValidText
            /\ \E i \in 1..Len(text) :
                  IsMtllibLine(text[i]) /\ ~HasSecondToken(text[i])) =>
          (ScanFailed /\ pending_materials = <<>>)

\* two libraries were scanned from a text whose second line has leading
\* blanks, a tab after mtllib and a third token
C5_Witness ==
    /\ ~ScanFailed /\ ScanReturned
    /\ pending_materials = <<PathA, PathB>>
    /\ text[2] # LineB

(***************************************************************************)
(* C6.  Geometry parsing begins only after every scanned library path has  *)
(* been fetched, parsed and inserted into the index under its literal      *)
(* path; the index does not change once parsing has begun.                 *)
(***************************************************************************)
\* C6: the index load_obj_buf saw holds every scanned path, each with a
\* result of parsing that library, and is the index still
C6_IndexCompleteBeforeParse ==
    index_at_parse # None =>
        LET index == index_at_parse[1] IN
        /\ fetch_i = Len(pending_materials)
        /\ DOMAIN index =
              {pending_materials[i] : i \in 1..Len(pending_materials)}
        /\ \A p \in DOMAIN index : index[p] \in MtlLoadResults(p)
        /\ materials = index

\* parsing began with two different libraries in the index
C6_Witness ==
    /\ index_at_parse # None
    /\ Len(pending_materials) = 2
    /\ Cardinality(DOMAIN index_at_parse[1]) = 2

(***************************************************************************)
(* C7.  The resolver fails on a library string that is absent from the     *)
(* index, and a failure of the geometry parse, that one or any other,      *)
(* makes load_obj return InvalidFormat with no asset emitted.              *)
(***************************************************************************)
\* C7: the run whose geometry parse failed returned InvalidObjFormat
C7_ParseFailureReturned ==
    /\ \A p \in {PathA, PathB, PathC} :
          p \notin DOMAIN materials => ~Resolver(materials, p).ok
    /\ (index_at_parse # None /\ pc = "parse") =>
          (result = "InvalidObjFormat" /\ set_log = <<>>)

(***************************************************************************)
(* C8.  After a successful load with N records the registry holds exactly  *)
(* one "Obj", one "Scene", N mesh and N pair assets, and at most one       *)
(* material per distinct material and one texture per distinct reference,  *)
(* also when labels of the load coincide.                                  *)
(***************************************************************************)
MaterialNames == {obj_materials[i].name : i \in 1..Len(obj_materials)}

TextureRefs ==
    {SlotTexture(obj_materials[i], k) :
        i \in 1..Len(obj_materials), k \in 1..4} \ {<<>>}

MaterialAndTextureBounds ==
    /\ Cardinality(Holding("StandardMaterial")) <= Cardinality(MaterialNames)
    /\ Cardinality(Holding("Texture")) <= Cardinality(TextureRefs)

\* C8: exactly one "Obj", one "Scene", N meshes and N pairs after every
\* successful load
C8_ExactCounts ==
    result = "Ok" =>
        /\ Cardinality(Holding("Obj")) = 1
        /\ Cardinality(Holding("Scene")) = 1
        /\ Cardinality(Holding("Mesh")) = Len(meshes)
        /\ Cardinality(Holding("ObjMesh")) = Len(meshes)
        /\ MaterialAndTextureBounds

\* the mesh names differ from one another and from the labels "Obj",
\* "Scene" and "ObjMesh<i>" of the load
MeshLabelsDistinct ==
    /\ \A i, j \in 1..Len(meshes) : i # j => meshes[i].name # meshes[j].name
    /\ \A i \in 1..Len(meshes) :
          meshes[i].name \notin
              {ObjLabel, SceneLabel}
                  \cup {ObjMeshLabel(k) : k \in 0..(Len(meshes) - 1)}

\* C8 as amended: the registry holds, for every label used, the asset
\* registered last under it: always one "Obj" and one "Scene", and N mesh
\* and N pair assets exactly when the mesh names differ from one another
\* and from "Obj", "Scene" and the "ObjMesh<i>" of the load (fewer
\* otherwise); the bounds on materials and textures stand.
C8_CountsUpToCollisions ==
    result = "Ok" =>
        /\ LastWriteWins
        /\ Cardinality(Holding("Obj")) = 1
        /\ Cardinality(Holding("Scene")) = 1
        /\ Cardinality(Holding("Mesh")) <= Len(meshes)
        /\ Cardinality(Holding("ObjMesh")) <= Len(meshes)
        /\ MeshLabelsDistinct <=>
              /\ Cardinality(Holding("Mesh")) = Len(meshes)
              /\ Cardinality(Holding("ObjMesh")) = Len(meshes)
        /\ MaterialAndTextureBounds

\* a successful load of two records, a material and a texture, with no two
\* labels alike
C8_Witness ==
    /\ result = "Ok"
    /\ Len(meshes) = 2
    /\ MeshLabelsDistinct
    /\ Cardinality(Holding("Mesh")) = 2
    /\ Cardinality(Holding("ObjMesh")) = 2
    /\ Cardinality(Holding("StandardMaterial")) = 1
    /\ Cardinality(Holding("Texture")) = 1

(***************************************************************************)
(* C9.  chunk_by of width N on a slice of length k*N succeeds with exactly *)
(* k tuples, the j-th holding elements j*N .. j*N+N-1 in order; an empty   *)
(* normals or texcoords array gives no tuple and does not fail the load.   *)
(***************************************************************************)
\* C9: chunk_by on a slice of k*N elements is Ok with the k consecutive
\* N-tuples; only a malformed record makes the mesh loop fail
C9_ChunksOfMultiples ==
    /\ (cb_out # None /\ Len(cb_v) % cb_n = 0) =>
          LET out == cb_out[1]
              k == Len(cb_v) \div cb_n
          IN
          /\ out.ok
          /\ Len(out.val) = k
          /\ \A j \in 0..(k - 1) : \A e \in 0..(cb_n - 1) :
                /\ Len(out.val[j + 1]) = cb_n
                /\ out.val[j + 1][e + 1] = cb_v[j * cb_n + e + 1]
    /\ (pc = "meshes" /\ result = "Panic") =>
          (meshes # <<>> /\ Malformed(meshes[Len(meshes)]))
    /\ \A i \in 1..Len(meshes) :
          (i < Len(meshes) \/ result # "Panic") => ~Malformed(meshes[i])

\* chunk_by::<_, 2> returned two pairs of a slice of four, beside a load
\* that succeeded with a record without normals and texcoords
C9_Witness ==
    /\ cb_out # None /\ cb_n = 2 /\ Len(cb_v) = 4 /\ cb_v[1] # cb_v[3]
    /\ result = "Ok"
    /\ meshes # <<>>
    /\ meshes[1].normals = <<>> /\ meshes[1].texcoords = <<>>

(***************************************************************************)
(* C10.  After a successful load the root has one child per record, in     *)
(* record order; the material of a record's child and of its pair asset is *)
(* absent exactly when the record has no material index, and is otherwise  *)
(* the material built from the descriptor at that index.                   *)
(***************************************************************************)
\* the set_labeled_asset call that registered the pair of record i (from 1)
PairCall(i) ==
    CHOOSE k \in 1..Len(set_log) :
        set_log[k].asset.kind = "ObjMesh" /\ set_log[k].asset.from = i - 1

\* the set_labeled_asset call that registered the material of descriptor j
MaterialCall(j) ==
    CHOOSE k \in 1..Len(set_log) :
        set_log[k].asset.kind = "StandardMaterial" /\ set_log[k].asset.from = j

ChildPerRecord ==
    /\ Len(children) = Len(meshes)
    /\ Len(loaded_meshes) = Len(meshes)
    /\ \A i \in 1..Len(meshes) :
          /\ children[i].mesh = meshes[i].name
          /\ children[i].material = None <=> meshes[i].material_id = None
          /\ LogKinds({"ObjMesh"}) # {}
          /\ set_log[PairCall(i)].asset.refs
                = <<Some(children[i].mesh), children[i].material>>

\* C10: one child per record in record order, the material absent exactly
\* without a material index, and otherwise the label's asset is the material
\* built from the descriptor at the index
C10_PairedWithBuiltMaterial ==
    result = "Ok" =>
        /\ ChildPerRecord
        /\ \A i \in 1..Len(meshes) :
              meshes[i].material_id # None =>
                  LET j == meshes[i].material_id[1]
                      h == children[i].material[1]
                  IN
                  /\ labeled_assets[h].kind = "StandardMaterial"
                  /\ labeled_assets[h].from = j

\* C10 as amended: ... and is otherwise the handle that building the
\* descriptor at that index returned, the handle of the label that is the
\* descriptor's name; that label holds the material built from that
\* descriptor unless a later registration of the load used the label again.
C10_PairedWithMaterialHandle ==
    result = "Ok" =>
        /\ ChildPerRecord
        /\ \A i \in 1..Len(meshes) :
              meshes[i].material_id # None =>
                  LET j == meshes[i].material_id[1]
                      h == children[i].material[1]
                  IN
                  /\ h = material_label(obj_materials[j + 1])
                  /\ h = loaded_materials[j + 1]
                  /\ set_log[MaterialCall(j)].label = h
                  /\ LastCall(h) = MaterialCall(j) =>
                        /\ labeled_assets[h].kind = "StandardMaterial"
                        /\ labeled_assets[h].from = j

\* a successful load whose first record has no material index and whose
\* second has the index of the second of two materials
C10_Witness ==
    /\ result = "Ok"
    /\ Len(meshes) = 2
    /\ Len(obj_materials) = 2
    /\ meshes[1].material_id = None
    /\ meshes[2].material_id = Some(1)
    /\ children[2].material = Some(NameG)

====
